---------------------------- MODULE Spec2Model ----------------------------
(***************************************************************************)
(* A model of dockrs: the batch dispatcher of src/src/lib.rs (start, stop, *)
(* rm, rmi, with the attach special case of start) and the stats           *)
(* aggregator of src/src/stats.rs (discovery loop, pollers, render loop).  *)
(*                                                                         *)
(* Spec      : one call of a batch command, from entry to return.          *)
(* StatsSpec : one run of the stats command.                               *)
(***************************************************************************)
EXTENDS Naturals, Sequences, FiniteSets

(***************************************************************************)
(* Bounds of the model.                                                    *)
(***************************************************************************)
\* longest target list given to a batch command
MaxTargets == 3
\* samples a metrics stream delivers at most before it ends or fails
MaxSamples == 2
\* longest container listing the engine returns
MaxListing == 2
\* chunks the attached output stream delivers at most before it ends or fails
MaxChunks == 2
\* lines the input task reads at most from standard input
MaxLines == 2
\* longest port spec, in characters
MaxSpecLen == 5
\* longest list of port specs
MaxSpecs == 2

\* container / image identifiers given on the command line
Ids == {"A", "B"}
\* container ids the engine lists in the stats command
StatIds == {"X", "Y"}

None == "None"

VARIABLES
    \* ---- batch dispatcher (lib.rs) ----
    op,           \* the command: "start", "stop", "rm", "rmi"
    containers,   \* the target list (containers / images)
    attach,       \* start's attach flag
    interactive,  \* start's interactive flag
    pc,           \* position of the command's own future
    unit,         \* unit[i]: state of the task spawned for target i
    res,          \* res[i]: what joining unit i yields
    calls,        \* engine calls in the order they were issued
    attachRes,    \* result of the engine's attach call in start
    attach_join,  \* the JoinHandles start holds for the attach tasks
    task,         \* task[t]: state of attach task t ("relay", "input")
    rm,           \* run's rm flag
    created,      \* id of the container run has created
    chunks,       \* the chunks the attached output stream has yielded
    rpos,         \* position of the relay task
    sout,         \* bytes the process's standard output has accepted
    serr,         \* bytes the process's standard error has accepted
    dirty,        \* the streams written to since their last flush
    lines,        \* number of lines read from standard input
    buf,          \* the input task's String buf
    ipos,         \* position of the input task
    sent,         \* bytes written to the container's input
    out,          \* lines printed to standard output
    log,          \* entries logged at error severity
    ret,          \* the command's return value, None while it runs
    \* ---- stats aggregator (stats.rs) ----
    stats,        \* Containers.stats: key -> cell (None or a sample)
    spawned,      \* spawned[k]: number of pollers ever spawned for id k
    poller,       \* poller[k]: position of the poller task of id k
    item,         \* item[k]: the sample the poller of k holds, not yet stored
    recvd,        \* recvd[k]: samples the stream of k has delivered so far
    outerLock,    \* holder of the Mutex around Containers
    dpc,          \* position of the discovery loop
    listRes,      \* how the last list_containers call ended: "ok", "err"
    listing,      \* the listing the discovery loop is working on
    fresh,        \* history: ids of listing that were no keys when it arrived
    rpc,          \* position of the render loop
    todo,         \* keys the render loop still has to visit in this frame
    frame,        \* rows printed in the current frame
    cur,          \* key whose cell lock the render loop waits for or holds
    shown,        \* history: shown[k] is the sample last printed for k, or 0
    engine,       \* ids of the containers the engine has
    listFailed,   \* history: a list_containers call has failed
    keep_screen,  \* the --keep-screen flag
    screen,       \* the terminal's buffer: "normal", "alternate"
    termOps,      \* terminal control sequences written so far
    handler,      \* position of the interrupt task
    proc,         \* the process: "running", or how it ended
    \* ---- port specs (lib.rs) ----
    input,        \* the port specs get_port_bindings has gone through
    bindings,     \* its HashMap from container port to bindings
    perr,         \* the string of its wrap_err error, if it failed
    ppanic        \* it has reached its unreachable! arm

ioVars == <<rm, created, chunks, rpos, sout, serr, dirty, lines, buf, ipos,
            sent>>
batchVars == <<op, containers, attach, interactive, pc, unit, res, calls,
               attachRes, attach_join, task, out, log, ret, ioVars>>
envVars == <<engine, listFailed, keep_screen, screen, termOps, handler, proc>>
statsVars == <<stats, spawned, poller, item, recvd, outerLock,
               dpc, listRes, listing, fresh, rpc, todo, frame, envVars>>
portVars == <<input, bindings, perr, ppanic>>
renderVars == <<cur, shown>>
vars == <<batchVars, statsVars, portVars, renderVars>>

(***************************************************************************)
(* Helpers.                                                                *)
(***************************************************************************)
SeqsUpTo(S, n) == UNION {[1..k -> S] : k \in 0..n}

RECURSIVE Count(_, _)
\* number of occurrences of x in sequence s
Count(s, x) ==
    IF s = <<>> THEN 0
    ELSE (IF Head(s) = x THEN 1 ELSE 0) + Count(Tail(s), x)

Targets == 1..Len(containers)

(***************************************************************************)
(* Port specs: get_port_bindings, src/src/lib.rs                           *)
(***************************************************************************)
\* a port spec is a string, modelled as the sequence of its characters: a
\* digit or the colon
Chars == {"1", ":"}
PortSpecs == SeqsUpTo(Chars, MaxSpecLen)

\* Option<&str>
NoStr == <<>>
SomeStr(s) == <<s>>

\* position of the last colon of s, 0 if it has none
LastColon(s) ==
    LET P == {k \in 1..Len(s) : s[k] = ":"} IN
    IF P = {} THEN 0 ELSE CHOOSE k \in P : \A j \in P : j <= k

RECURSIVE RSplitN(_, _)
\* str::rsplitn(n, ':'): the substrings between colons taken from the
\* right, at most n of them, the last one being the rest of the string
RSplitN(s, n) ==
    IF n = 0 THEN <<>>
    ELSE IF n = 1 \/ LastColon(s) = 0 THEN <<s>>
    ELSE <<SubSeq(s, LastColon(s) + 1, Len(s))>>
         \o RSplitN(SubSeq(s, 1, LastColon(s) - 1), n - 1)

\* mutant of Parts: the spec is split at every colon
PartsAtEveryColon(s) == RSplitN(s, Len(s) + 1)

\* input.rsplitn(3, ':')
Parts(s) == RSplitN(s, 3)

\* parts.next(): the k-th item of the iterator, None once it is exhausted
NextPart(parts, k) == IF k <= Len(parts) THEN SomeStr(parts[k]) ELSE NoStr

\* mutant of MissingFirst: an empty container port counts as missing
MissingFirstOrEmpty(first) == first = NoStr \/ first = SomeStr(<<>>)

\* parts.next().wrap_err_with(..)?: None is the error
MissingFirst(first) == first = NoStr

\* mutant of Entry: the entry is inserted anew
EntryFresh(b, port) == <<>>

\* bindings.entry(first.to_string()).or_insert_with(|| Some(vec![]))
Entry(b, port) == IF port \in DOMAIN b THEN b[port] ELSE <<>>

\* the match on (second, third): what is pushed onto the entry, and
\* whether the unreachable! arm is taken
Pushed(second, third) ==
    IF second = NoStr /\ third = NoStr THEN <<>>
    ELSE IF second # NoStr /\ third = NoStr
         THEN <<[host_ip |-> NoStr, host_port |-> second]>>
    ELSE IF second # NoStr /\ third # NoStr
         THEN <<[host_ip |-> third, host_port |-> second]>>
    ELSE <<>>

\* _ => unreachable!(..): a third part without a second
Unreachable(second, third) == second = NoStr /\ third # NoStr

\* the map after one turn of the loop over the spec s
Bound(b, s) ==
    LET parts == Parts(s)
        port == parts[1]
        list == Entry(b, port) \o Pushed(NextPart(parts, 2), NextPart(parts, 3))
    IN [k \in DOMAIN b \cup {port} |-> IF k = port THEN list ELSE b[k]]

\* let mut bindings = HashMap::new()
PortsInit ==
    /\ input = <<>>
    /\ bindings = <<>>
    /\ perr = NoStr
    /\ ppanic = FALSE

\* one turn of for input in input: the next spec of the list is split and
\* its binding recorded, or the function ends with the error or the panic
PortSpecStep ==
    /\ perr = NoStr /\ ~ppanic
    /\ Len(input) < MaxSpecs
    /\ \E s \in PortSpecs :
        /\ input' = Append(input, s)
        /\ LET parts == Parts(s) IN
           IF MissingFirst(NextPart(parts, 1))
           THEN perr' = SomeStr(s) /\ UNCHANGED <<bindings, ppanic>>
           ELSE IF Unreachable(NextPart(parts, 2), NextPart(parts, 3))
                THEN ppanic' = TRUE /\ UNCHANGED <<bindings, perr>>
                ELSE bindings' = Bound(bindings, s) /\ UNCHANGED <<perr, ppanic>>
    /\ UNCHANGED <<batchVars, statsVars, renderVars>>

(***************************************************************************)
(* Batch dispatcher: src/src/lib.rs                                        *)
(***************************************************************************)
Ops == {"start", "stop", "rm", "rmi"}

\* the engine call a unit of each command makes
EngineOp(o) ==
    CASE o = "start" -> "start_container"
      [] o = "stop"  -> "stop_container"
      [] o = "rm"    -> "remove_container"
      [] o = "rmi"   -> "remove_image"

\* ImageDeleteResponseItem lists an engine may answer remove_image with
RmiResponses ==
    { <<>>,
      <<[untagged |-> "tag", deleted |-> None]>>,
      <<[untagged |-> "tag", deleted |-> "sha"]>> }

\* what joining a unit yields: Ok(Ok(..)), Ok(Err(..)) or Err(JoinError)
Outcomes(o) ==
    IF o = "rmi"
    THEN {[kind |-> "ok", responses |-> r] : r \in RmiResponses}
         \cup {[kind |-> "err", responses |-> <<>>],
               [kind |-> "panic", responses |-> <<>>]}
    ELSE {[kind |-> k, responses |-> <<>>] : k \in {"ok", "err", "panic"}}

NoOutcome == [kind |-> "none", responses |-> <<>>]

AttachMode == op = "start" /\ (attach \/ interactive)

\* mutant of StartPrecondition: any non-empty list may be attached to
StartPreconditionNonEmpty == Len(containers) >= 1 \/ (~attach /\ ~interactive)

\* ensure!(containers.len() == 1 || (!attach && !interactive), ...)
StartPrecondition == Len(containers) = 1 \/ (~attach /\ ~interactive)

\* the n-th chunk of the attached output stream: LogOutput::StdOut,
\* StdErr or Console with its message; the bytes of different chunks differ
ChunkTags == {"StdOut", "StdErr", "Console"}
Chunk(n, tag) == [tag |-> tag, message |-> <<2 * n - 1, 2 * n>>]

\* the n-th line standard input delivers
Line(n) == <<100 + n>>

\* nothing created, no stream opened, nothing read or written yet
IoInit ==
    /\ created = None
    /\ chunks = <<>>
    /\ rpos = "none"
    /\ sout = <<>>
    /\ serr = <<>>
    /\ dirty = {}
    /\ lines = 0
    /\ buf = <<>>
    /\ ipos = "none"
    /\ sent = <<>>

BatchInit ==
    /\ op \in Ops
    /\ containers \in SeqsUpTo(Ids, MaxTargets)
    /\ attach \in (IF op = "start" THEN BOOLEAN ELSE {FALSE})
    /\ interactive \in (IF op = "start" THEN BOOLEAN ELSE {FALSE})
    /\ rm = FALSE
    /\ IoInit
    /\ pc = "entry"
    /\ unit = [i \in Targets |-> "unspawned"]
    /\ res = [i \in Targets |-> NoOutcome]
    /\ calls = <<>>
    /\ attachRes = None
    /\ attach_join = <<>>
    /\ task = [t \in {"relay", "input"} |-> "none"]
    /\ out = <<>>
    /\ log = <<>>
    /\ ret = None

\* mutant of AfterEnsure: the start units are dispatched without attaching
AfterEnsureNoAttach == "dispatch"

\* where the command goes once its precondition holds: start in attach mode
\* attaches first (if attach || interactive { .. }), anything else dispatches
AfterEnsure == IF AttachMode THEN "attach" ELSE "dispatch"

\* entry of the command; for start, the ensure! on the number of targets
Enter ==
    /\ pc = "entry"
    /\ IF op = "start" /\ ~StartPrecondition
       THEN /\ pc' = "done"
            /\ ret' = "MultiAttachUnsupported"
       ELSE /\ pc' = AfterEnsure
            /\ ret' = ret
    /\ UNCHANGED <<op, containers, attach, interactive, unit, res, calls,
                   attachRes, attach_join, task, out, log>>
    /\ UNCHANGED <<statsVars, ioVars, portVars, renderVars>>

\* the container attach_container is called for: start's only target, or
\* the container run has created
AttachTarget == IF op = "run" THEN created ELSE containers[1]

\* where the command goes with the attach handles: start dispatches its
\* units, run starts the container
AfterAttach == IF op = "run" THEN "run_start" ELSE "dispatch"

\* attach_container: docker.attach_container(container, options) is issued
AttachCall ==
    /\ pc = "attach"
    /\ calls' = Append(calls, [api |-> "attach_container", target |-> AttachTarget])
    /\ pc' = "attach_wait"
    /\ UNCHANGED <<op, containers, attach, interactive, unit, res,
                   attachRes, attach_join, task, out, log, ret>>
    /\ UNCHANGED <<statsVars, ioVars, portVars, renderVars>>

\* attach_container: the call returns; on Ok the relay task (and, when
\* interactive, the input task) is spawned and the handles are returned
AttachReturn ==
    /\ pc = "attach_wait"
    /\ \E r \in {"ok", "err"} :
        /\ attachRes' = r
        /\ IF r = "err"
           THEN /\ pc' = "done"
                /\ ret' = "AttachError"
                /\ UNCHANGED <<task, attach_join, rpos, ipos>>
           ELSE /\ pc' = AfterAttach
                /\ ret' = ret
                /\ task' = [t \in {"relay", "input"} |->
                              IF t = "relay" \/ interactive THEN "running" ELSE "none"]
                /\ attach_join' = (IF interactive THEN <<"relay", "input">>
                                   ELSE <<"relay">>)
                /\ rpos' = "next"
                /\ ipos' = (IF interactive THEN "read" ELSE "none")
    /\ UNCHANGED <<op, containers, attach, interactive, unit, res, calls, out, log>>
    /\ UNCHANGED <<rm, created, chunks, sout, serr, dirty, lines, buf, sent>>
    /\ UNCHANGED <<statsVars, portVars, renderVars>>

\* join_all(iter) collects the iterator: tokio::spawn for each target in order
Spawn(i) ==
    /\ pc = "dispatch"
    /\ unit[i] = "unspawned"
    /\ \A j \in Targets : j < i => unit[j] # "unspawned"
    /\ unit' = [unit EXCEPT ![i] = "spawned"]
    /\ UNCHANGED <<op, containers, attach, interactive, pc, res, calls,
                   attachRes, attach_join, task, out, log, ret>>
    /\ UNCHANGED <<statsVars, ioVars, portVars, renderVars>>

\* every target has its task: the command awaits join_all
Dispatched ==
    /\ pc = "dispatch"
    /\ \A i \in Targets : unit[i] # "unspawned"
    /\ pc' = "join"
    /\ UNCHANGED <<op, containers, attach, interactive, unit, res, calls,
                   attachRes, attach_join, task, out, log, ret>>
    /\ UNCHANGED <<statsVars, ioVars, portVars, renderVars>>

\* mutant of UnitTarget: every closure captures the first target
UnitTargetFirst(i) == containers[1]

\* the target a unit's closure captured: let container = container.clone()
UnitTarget(i) == containers[i]

\* a unit issues its engine call
UnitCall(i) ==
    /\ unit[i] = "spawned"
    /\ unit' = [unit EXCEPT ![i] = "calling"]
    /\ calls' = Append(calls, [api |-> EngineOp(op), target |-> UnitTarget(i)])
    /\ UNCHANGED <<op, containers, attach, interactive, pc, res,
                   attachRes, attach_join, task, out, log, ret>>
    /\ UNCHANGED <<statsVars, ioVars, portVars, renderVars>>

\* a unit's engine call returns (or the task panics) and the task ends
UnitReturn(i) ==
    /\ unit[i] = "calling"
    /\ \E r \in Outcomes(op) : res' = [res EXCEPT ![i] = r]
    /\ unit' = [unit EXCEPT ![i] = "finished"]
    /\ UNCHANGED <<op, containers, attach, interactive, pc, calls,
                   attachRes, attach_join, task, out, log, ret>>
    /\ UNCHANGED <<statsVars, ioVars, portVars, renderVars>>

\* mutant of JoinReady: the join resolves at the first failed unit, as
\* try_join_all would
JoinReadyShortCircuit ==
    \/ \A i \in Targets : unit[i] = "finished"
    \/ \E i \in Targets : unit[i] = "finished" /\ res[i].kind # "ok"

\* join_all(..).await is ready: every JoinHandle has resolved
JoinReady == \A i \in Targets : unit[i] = "finished"

\* the lines one successful unit prints
SuccessLines(i) ==
    IF op = "rmi"
    THEN LET r == res[i].responses
             line(k) ==
                 (IF r[k].untagged # None
                  THEN <<[kind |-> "Untagged", text |-> r[k].untagged]>> ELSE <<>>)
                 \o (IF r[k].deleted # None
                     THEN <<[kind |-> "Deleted", text |-> r[k].deleted]>> ELSE <<>>)
             RECURSIVE upto(_)
             upto(k) == IF k = 0 THEN <<>> ELSE upto(k - 1) \o line(k)
         IN upto(Len(r))
    ELSE <<[kind |-> "id", text |-> UnitTarget(i)]>>

\* the entry one failed unit logs with error!
FailureEntry(i) ==
    IF res[i].kind = "err"
    THEN [msg |-> "Failed to " \o op,
          container |-> (IF op = "rmi" THEN None ELSE UnitTarget(i)),
          error |-> "engine"]
    ELSE [msg |-> "Failed to " \o op, container |-> None, error |-> "join"]

RECURSIVE FoldResetsFlag(_)
\* mutant of Fold: the success arm yields false instead of the accumulator
FoldResetsFlag(n) ==
    IF n = 0 THEN [out |-> <<>>, log |-> <<>>, err |-> FALSE]
    ELSE LET acc == FoldResetsFlag(n - 1) IN
         IF res[n].kind = "ok"
         THEN [acc EXCEPT !.out = @ \o SuccessLines(n), !.err = FALSE]
         ELSE [acc EXCEPT !.log = Append(@, FailureEntry(n)), !.err = TRUE]

RECURSIVE FoldStopsAtError(_)
\* mutant of Fold: nothing is printed once a failed unit was seen
FoldStopsAtError(n) ==
    IF n = 0 THEN [out |-> <<>>, log |-> <<>>, err |-> FALSE]
    ELSE LET acc == FoldStopsAtError(n - 1) IN
         IF res[n].kind = "ok"
         THEN (IF acc.err THEN acc ELSE [acc EXCEPT !.out = @ \o SuccessLines(n)])
         ELSE [acc EXCEPT !.log = Append(@, FailureEntry(n)), !.err = TRUE]

RECURSIVE FoldNewestFirst(_)
\* mutant of Fold: the line of a later result is printed before the lines
\* of the earlier ones
FoldNewestFirst(n) ==
    IF n = 0 THEN [out |-> <<>>, log |-> <<>>, err |-> FALSE]
    ELSE LET acc == FoldNewestFirst(n - 1) IN
         IF res[n].kind = "ok"
         THEN [acc EXCEPT !.out = SuccessLines(n) \o @]
         ELSE [acc EXCEPT !.log = Append(@, FailureEntry(n)), !.err = TRUE]

RECURSIVE Fold(_)
\* .iter().fold(false, |err, join| ...) over the first n results, in input
\* order: what was printed, what was logged, and the accumulated flag
Fold(n) ==
    IF n = 0 THEN [out |-> <<>>, log |-> <<>>, err |-> FALSE]
    ELSE LET acc == Fold(n - 1) IN
         IF res[n].kind = "ok"
         THEN [acc EXCEPT !.out = @ \o SuccessLines(n)]
         ELSE [acc EXCEPT !.log = Append(@, FailureEntry(n)), !.err = TRUE]

\* join_all resolves; the fold prints and logs; ensure!(!err, ..); then the
\* command returns, or (start in attach mode) goes on to join the attach tasks
JoinAll ==
    /\ pc = "join"
    /\ JoinReady
    /\ LET f == Fold(Len(containers)) IN
        /\ out' = out \o f.out
        /\ log' = log \o f.log
        /\ IF f.err
           THEN pc' = "done" /\ ret' = "BatchFailed"
           ELSE IF AttachMode
                THEN pc' = "attach_join" /\ ret' = ret
                ELSE pc' = "done" /\ ret' = "Ok"
    /\ UNCHANGED <<op, containers, attach, interactive, unit, res, calls,
                   attachRes, attach_join, task>>
    /\ UNCHANGED <<statsVars, ioVars, portVars, renderVars>>

\* attach_container's relay task: output.next().await yields the next chunk
RelayNext ==
    /\ task["relay"] = "running"
    /\ rpos = "next"
    /\ Len(chunks) < MaxChunks
    /\ \E tag \in ChunkTags : chunks' = Append(chunks, Chunk(Len(chunks) + 1, tag))
    /\ rpos' = "write"
    /\ UNCHANGED <<rm, created, sout, serr, dirty, lines, buf, ipos, sent>>
    /\ UNCHANGED <<op, containers, attach, interactive, pc, unit, res, calls,
                   attachRes, attach_join, task, out, log, ret>>
    /\ UNCHANGED <<statsVars, portVars, renderVars>>

\* what AsyncWriteExt::write(&message) may return as Ok(n): the number of
\* bytes the stream accepted, which need not be all of them
Accepted(message) == 1..Len(message)

\* the stream a chunk is written to
StreamOf(tag) == IF tag = "StdErr" THEN "stderr" ELSE "stdout"

\* attach_container's relay task: stdout.write(&message).await? or
\* stderr.write(&message).await? accepts n bytes; the count is dropped
RelayWrite ==
    /\ task["relay"] = "running"
    /\ rpos = "write"
    /\ LET c == chunks[Len(chunks)] IN
        \E n \in Accepted(c.message) :
            /\ IF StreamOf(c.tag) = "stdout"
               THEN sout' = sout \o SubSeq(c.message, 1, n) /\ UNCHANGED serr
               ELSE serr' = serr \o SubSeq(c.message, 1, n) /\ UNCHANGED sout
            /\ dirty' = dirty \cup {StreamOf(c.tag)}
    /\ rpos' = "flush_out"
    /\ UNCHANGED <<rm, created, chunks, lines, buf, ipos, sent>>
    /\ UNCHANGED <<op, containers, attach, interactive, pc, unit, res, calls,
                   attachRes, attach_join, task, out, log, ret>>
    /\ UNCHANGED <<statsVars, portVars, renderVars>>

\* attach_container's relay task: stdout.flush().await?
RelayFlushOut ==
    /\ task["relay"] = "running"
    /\ rpos = "flush_out"
    /\ dirty' = dirty \ {"stdout"}
    /\ rpos' = "flush_err"
    /\ UNCHANGED <<rm, created, chunks, sout, serr, lines, buf, ipos, sent>>
    /\ UNCHANGED <<op, containers, attach, interactive, pc, unit, res, calls,
                   attachRes, attach_join, task, out, log, ret>>
    /\ UNCHANGED <<statsVars, portVars, renderVars>>

\* attach_container's relay task: stderr.flush().await?, then the loop
\* reads the next chunk
RelayFlushErr ==
    /\ task["relay"] = "running"
    /\ rpos = "flush_err"
    /\ dirty' = dirty \ {"stderr"}
    /\ rpos' = "next"
    /\ UNCHANGED <<rm, created, chunks, sout, serr, lines, buf, ipos, sent>>
    /\ UNCHANGED <<op, containers, attach, interactive, pc, unit, res, calls,
                   attachRes, attach_join, task, out, log, ret>>
    /\ UNCHANGED <<statsVars, portVars, renderVars>>

\* attach_container's relay task: the output stream ends, the task returns Ok
RelayEnd ==
    /\ task["relay"] = "running"
    /\ rpos = "next"
    /\ task' = [task EXCEPT !["relay"] = "ok"]
    /\ UNCHANGED <<op, containers, attach, interactive, pc, unit, res, calls,
                   attachRes, attach_join, out, log, ret>>
    /\ UNCHANGED <<statsVars, ioVars, portVars, renderVars>>

\* attach_container's relay task: an error item (chunk?), a failed write or
\* a failed flush ends it with the error
RelayFail ==
    /\ task["relay"] = "running"
    /\ task' = [task EXCEPT !["relay"] = "err"]
    /\ UNCHANGED <<op, containers, attach, interactive, pc, unit, res, calls,
                   attachRes, attach_join, out, log, ret>>
    /\ UNCHANGED <<statsVars, ioVars, portVars, renderVars>>

\* String::new() is never cleared, and read_line appends to it
ReadLine(b, line) == b \o line

\* attach_container's input task: stdin.read_line(&mut buf).await?
InputRead ==
    /\ task["input"] = "running"
    /\ ipos = "read"
    /\ lines < MaxLines
    /\ lines' = lines + 1
    /\ buf' = ReadLine(buf, Line(lines + 1))
    /\ ipos' = "write"
    /\ UNCHANGED <<rm, created, chunks, rpos, sout, serr, dirty, sent>>
    /\ UNCHANGED <<op, containers, attach, interactive, pc, unit, res, calls,
                   attachRes, attach_join, task, out, log, ret>>
    /\ UNCHANGED <<statsVars, portVars, renderVars>>

\* attach_container's input task: input.write_all(buf.as_bytes()).await?,
\* then the loop reads again
InputWrite ==
    /\ task["input"] = "running"
    /\ ipos = "write"
    /\ sent' = sent \o buf
    /\ ipos' = "read"
    /\ UNCHANGED <<rm, created, chunks, rpos, sout, serr, dirty, lines, buf>>
    /\ UNCHANGED <<op, containers, attach, interactive, pc, unit, res, calls,
                   attachRes, attach_join, task, out, log, ret>>
    /\ UNCHANGED <<statsVars, portVars, renderVars>>

\* mutant of InputLoopEnd: the loop is left with Ok(())
InputLoopEndOk == "ok"

\* the only way out of loop { read_line?; write_all? } is the ? of a read
\* or a write that failed: the task returns the error
InputLoopEnd == "err"

\* attach_container's input task: loop { read_line?; write_all? } ends only
\* with an error
InputFail ==
    /\ task["input"] = "running"
    /\ task' = [task EXCEPT !["input"] = InputLoopEnd]
    /\ UNCHANGED <<op, containers, attach, interactive, pc, unit, res, calls,
                   attachRes, attach_join, out, log, ret>>
    /\ UNCHANGED <<statsVars, ioVars, portVars, renderVars>>

\* mutant of AttachJoinReady: the first attach task to end resolves the join
AttachJoinReadyAny ==
    \E k \in 1..Len(attach_join) : task[attach_join[k]] # "running"

\* join_all(attach_join).await is ready: every attach task has ended
AttachJoinReady ==
    \A k \in 1..Len(attach_join) : task[attach_join[k]] # "running"

\* for join in join_all(attach_join).await { join??; }  Ok(())
AttachJoin ==
    /\ pc = "attach_join"
    /\ AttachJoinReady
    /\ pc' = "done"
    /\ ret' = (IF \E k \in 1..Len(attach_join) : task[attach_join[k]] = "err"
               THEN "TaskError" ELSE "Ok")
    /\ UNCHANGED <<op, containers, attach, interactive, unit, res, calls,
                   attachRes, attach_join, task, out, log>>
    /\ UNCHANGED <<statsVars, ioVars, portVars, renderVars>>

\* ---- run ----

\* run(docker, options, config, rm): nothing called yet
RunInit ==
    /\ op = "run"
    /\ containers = <<>>
    /\ attach = FALSE
    /\ interactive = FALSE
    /\ rm \in BOOLEAN
    /\ IoInit
    /\ pc = "entry"
    /\ unit = <<>>
    /\ res = <<>>
    /\ calls = <<>>
    /\ attachRes = None
    /\ attach_join = <<>>
    /\ task = [t \in {"relay", "input"} |-> "none"]
    /\ out = <<>>
    /\ log = <<>>
    /\ ret = None

\* docker.create_container(options, config) is issued
RunCreateCall ==
    /\ op = "run"
    /\ pc = "entry"
    /\ calls' = Append(calls, [api |-> "create_container", target |-> None])
    /\ pc' = "create_wait"
    /\ UNCHANGED <<op, containers, attach, interactive, unit, res,
                   attachRes, attach_join, task, out, log, ret>>
    /\ UNCHANGED <<statsVars, ioVars, portVars, renderVars>>

\* create_container(..).await?: Err is returned, Ok carries the new id
RunCreateReturn ==
    /\ pc = "create_wait"
    /\ \/ /\ pc' = "done"
          /\ ret' = "CreateError"
          /\ UNCHANGED created
       \/ \E id \in Ids :
            /\ created' = id
            /\ pc' = "attach"
            /\ ret' = ret
    /\ UNCHANGED <<op, containers, attach, interactive, unit, res, calls,
                   attachRes, attach_join, task, out, log>>
    /\ UNCHANGED <<rm, chunks, rpos, sout, serr, dirty, lines, buf, ipos, sent>>
    /\ UNCHANGED <<statsVars, portVars, renderVars>>

\* docker.start_container(&container.id, None) is issued
RunStartCall ==
    /\ pc = "run_start"
    /\ calls' = Append(calls, [api |-> "start_container", target |-> created])
    /\ pc' = "run_start_wait"
    /\ UNCHANGED <<op, containers, attach, interactive, unit, res,
                   attachRes, attach_join, task, out, log, ret>>
    /\ UNCHANGED <<statsVars, ioVars, portVars, renderVars>>

\* mutant of AfterStartErr: with rm set the container that failed to start
\* is removed
AfterStartErrRemoves == IF rm THEN "run_rm" ELSE "done"

\* start_container(..).await? returns the error from run
AfterStartErr == "done"

\* start_container(..).await?
RunStartReturn ==
    /\ pc = "run_start_wait"
    /\ \/ pc' = AfterStartErr /\ ret' = "StartError"
       \/ pc' = "run_join" /\ ret' = ret
    /\ UNCHANGED <<op, containers, attach, interactive, unit, res, calls,
                   attachRes, attach_join, task, out, log>>
    /\ UNCHANGED <<statsVars, ioVars, portVars, renderVars>>

\* join_all(join).await; waits for the relay task and drops its result;
\* then if rm { .. } Ok(())
RunJoin ==
    /\ pc = "run_join"
    /\ AttachJoinReady
    /\ IF rm
       THEN pc' = "run_rm" /\ ret' = ret
       ELSE pc' = "done" /\ ret' = "Ok"
    /\ UNCHANGED <<op, containers, attach, interactive, unit, res, calls,
                   attachRes, attach_join, task, out, log>>
    /\ UNCHANGED <<statsVars, ioVars, portVars, renderVars>>

\* docker.remove_container(&container.id, None) is issued
RunRemoveCall ==
    /\ pc = "run_rm"
    /\ calls' = Append(calls, [api |-> "remove_container", target |-> created])
    /\ pc' = "run_rm_wait"
    /\ UNCHANGED <<op, containers, attach, interactive, unit, res,
                   attachRes, attach_join, task, out, log, ret>>
    /\ UNCHANGED <<statsVars, ioVars, portVars, renderVars>>

\* remove_container(..).await?; Ok(())
RunRemoveReturn ==
    /\ pc = "run_rm_wait"
    /\ pc' = "done"
    /\ ret' \in {"Ok", "RemoveError"}
    /\ UNCHANGED <<op, containers, attach, interactive, unit, res, calls,
                   attachRes, attach_join, task, out, log>>
    /\ UNCHANGED <<statsVars, ioVars, portVars, renderVars>>

(***************************************************************************)
(* Stats aggregator: src/src/stats.rs                                      *)
(***************************************************************************)
\* a ContainerSummary is modelled by its id, None for a summary without id
Summaries == StatIds \cup {None}

\* what list_containers may answer with: no id is listed twice
Listings ==
    {l \in SeqsUpTo(Summaries, MaxListing) :
        \A i, j \in 1..Len(l) : (i # j /\ l[i] = l[j]) => l[i] = None}

\* a sample is identified by its position in its container's stream: the
\* samples are 1..MaxSamples
\* Option<Stats>: the empty cell, and the cell holding sample n
Empty == <<>>
Some(n) == <<n>>

\* what stream.next() handed the poller: nothing yet, Ok(sample n), Err
NoItem == [tag |-> "none"]
OkItem(n) == [tag |-> "ok", sample |-> n]
ErrItem == [tag |-> "err"]

Keys == DOMAIN stats

\* the state of the stats command; shared by both specifications, with the
\* loops at "idle" when a batch command runs and at work under StatsSpec
StatsStart(d, r) ==
    /\ listFailed = FALSE
    /\ screen = "normal"
    /\ termOps = {}
    /\ handler = "none"
    /\ proc = "running"
    /\ stats = <<>>
    /\ spawned = [k \in StatIds |-> 0]
    /\ poller = [k \in StatIds |-> "none"]
    /\ item = [k \in StatIds |-> NoItem]
    /\ recvd = [k \in StatIds |-> 0]
    /\ outerLock = None
    /\ dpc = d
    /\ listRes = None
    /\ listing = <<>>
    /\ fresh = {}
    /\ rpc = r
    /\ todo = {}
    /\ frame = <<>>
    /\ cur = None
    /\ shown = [k \in StatIds |-> 0]

StatsIdle == StatsStart("idle", "idle") /\ engine = {} /\ keep_screen = FALSE

\* stats(docker, true), as test_stats calls it, on an engine with all of
\* StatIds: initialize_stats has created the empty Containers and spawned
\* the discovery loop, and stats is about to set up the screen
StatsInit ==
    /\ StatsStart("list", "start")
    /\ engine = StatIds
    /\ keep_screen = TRUE

\* stats(docker, keep_screen) with either value of the flag, on an engine
\* with one container
ScreenInit ==
    /\ StatsStart("list", "start")
    /\ engine = {"X"}
    /\ keep_screen \in BOOLEAN

\* ---- discovery loop: initialize_stats, Containers::update ----

\* mutant of AfterListErr: a failed listing ends the discovery loop
AfterListErrStops == "stopped"

\* Err(e) => { error!(..); interval.tick().await; continue; }
AfterListErr == "tick"

\* docker.list_containers(..).await: Err is logged, Ok yields the listing
DiscList ==
    /\ proc = "running"
    /\ dpc = "list"
    /\ \/ /\ listRes' = "err"
          /\ dpc' = AfterListErr
          /\ listFailed' = TRUE
          /\ UNCHANGED <<listing, fresh>>
       \/ \E l \in Listings :
            /\ \A i \in 1..Len(l) : l[i] \in engine \cup {None}
            /\ listRes' = "ok"
            /\ listing' = l
            /\ fresh' = {l[i] : i \in 1..Len(l)} \ (Keys \cup {None})
            /\ dpc' = "lock"
            /\ UNCHANGED listFailed
    /\ UNCHANGED <<stats, spawned, poller, item, recvd, outerLock, rpc, todo,
                   frame>>
    /\ UNCHANGED <<engine, keep_screen, screen, termOps, handler, proc>>
    /\ UNCHANGED <<batchVars, portVars, renderVars>>

\* mutant of NeedsPoller: an id whose poller has ended gets a new one
NeedsPollerWhenEnded(map, id) ==
    id \notin DOMAIN map \/ poller[id] \in {"ok", "err"}

\* mutant of NeedsPoller: the contains_key test is inverted
NeedsPollerInverted(map, id) == id \in DOMAIN map

\* if self.stats.contains_key(id) { continue; }
NeedsPoller(map, id) == id \notin DOMAIN map

\* mutant of Inserted: the map is rebuilt, keeping only the listed ids
InsertedListedOnly(map, id) ==
    [k \in (DOMAIN map \cap {listing[i] : i \in 1..Len(listing)}) \cup {id} |->
        IF k = id THEN Empty ELSE map[k]]

\* self.stats.insert(id.to_string(), Arc::new(Mutex::new(None)))
Inserted(map, id) ==
    [k \in DOMAIN map \cup {id} |-> IF k = id THEN Empty ELSE map[k]]

RECURSIVE UpdateSkipsIdless(_, _)
\* mutant of Update: a summary without id is skipped and the pass goes on
UpdateSkipsIdless(n, acc) ==
    IF n > Len(listing) THEN acc
    ELSE IF listing[n] = None
         THEN UpdateSkipsIdless(n + 1, [acc EXCEPT !.ok = FALSE])
    ELSE IF NeedsPoller(acc.map, listing[n])
         THEN UpdateSkipsIdless(n + 1, [acc EXCEPT !.map = Inserted(@, listing[n]),
                                                   !.new = @ \cup {listing[n]}])
         ELSE UpdateSkipsIdless(n + 1, acc)

RECURSIVE Update(_, _)
\* Containers::update on summaries n.. of the listing, from the map and the
\* set of pollers spawned so far in this pass: a summary without id ends the
\* pass with Err, a known id is skipped, a new id gets its empty cell and
\* its poller
Update(n, acc) ==
    IF n > Len(listing) THEN [acc EXCEPT !.ok = TRUE]
    ELSE IF listing[n] = None THEN [acc EXCEPT !.ok = FALSE]
    ELSE IF NeedsPoller(acc.map, listing[n])
         THEN Update(n + 1, [acc EXCEPT !.map = Inserted(@, listing[n]),
                                        !.new = @ \cup {listing[n]}])
         ELSE Update(n + 1, acc)

\* mutant of UpdateGuardAfterPass: the outer guard outlives the statement
UpdateGuardKept == "discovery"

\* the guard of stats_clone.lock().await is a temporary of the statement:
\* it is dropped at its end, before interval.tick()
UpdateGuardAfterPass == None

\* .update(&docker, stats_options, &containers).await under the outer
\* guard, and the end of the statement
UpdatePass ==
    /\ LET u == Update(1, [map |-> stats, new |-> {}, ok |-> TRUE]) IN
        /\ stats' = u.map
        /\ spawned' = [k \in StatIds |-> spawned[k] + (IF k \in u.new THEN 1 ELSE 0)]
        /\ poller' = [k \in StatIds |-> IF k \in u.new THEN "next" ELSE poller[k]]
    /\ outerLock' = UpdateGuardAfterPass
    /\ dpc' = "tick"
    /\ UNCHANGED <<item, recvd, listRes, listing, fresh, rpc, todo, frame>>
    /\ UNCHANGED <<batchVars, envVars, portVars, renderVars>>

\* stats_clone.lock().await.update(..).await: update has no suspension
\* point, so the pass runs from taking the outer lock to dropping it
DiscUpdate ==
    /\ proc = "running"
    /\ dpc = "lock"
    /\ outerLock = None
    /\ UpdatePass

\* interval.tick().await of the discovery loop; the listing of the turn is
\* dropped
DiscTick ==
    /\ proc = "running"
    /\ dpc = "tick"
    /\ dpc' = "list"
    /\ listRes' = None
    /\ listing' = <<>>
    /\ fresh' = {}
    /\ UNCHANGED <<stats, spawned, poller, item, recvd, outerLock, rpc, todo,
                   frame>>
    /\ UNCHANGED <<batchVars, envVars, portVars, renderVars>>

\* ---- poller: recv_stats ----

\* stream.next().await: the next sample, a transport error, or the end
PollerNext(k) ==
    /\ proc = "running"
    /\ poller[k] = "next"
    /\ \/ /\ recvd[k] < MaxSamples
          /\ recvd' = [recvd EXCEPT ![k] = @ + 1]
          /\ item' = [item EXCEPT ![k] = OkItem(recvd[k] + 1)]
          /\ poller' = [poller EXCEPT ![k] = "lock_replace"]
       \/ /\ item' = [item EXCEPT ![k] = ErrItem]
          /\ poller' = [poller EXCEPT ![k] = "lock_replace"]
          /\ UNCHANGED recvd
       \/ /\ poller' = [poller EXCEPT ![k] = "lock_take"]
          /\ UNCHANGED <<recvd, item>>
    /\ UNCHANGED <<stats, spawned, outerLock, dpc, listRes, listing, fresh,
                   rpc, todo, frame>>
    /\ UNCHANGED <<batchVars, envVars, portVars, renderVars>>

\* mutant of Replaced: only an empty cell takes the sample
ReplacedIfEmpty(cell, sample) == IF cell = Empty THEN Some(sample) ELSE cell

\* Option::replace(item): the cell holds the new sample
Replaced(cell, sample) == Some(sample)

\* mutant of CellAfterErr: the error clears the cell
CellAfterErrCleared(c) == Empty

\* item? returns before replace is called: the cell is as it was
CellAfterErr(c) == c

\* mutant of PollerFailed: the error ends every poller that is at work
PollerFailedAll(p, k) ==
    [j \in StatIds |-> IF p[j] \in {"none", "ok"} THEN p[j] ELSE "err"]

\* item? returns the error from recv_stats, and the task spawned around it
\* logs the error and ends: the poller of k is over
PollerFailed(p, k) == [p EXCEPT ![k] = "err"]

\* stat.lock().await.replace(item?): the cell's lock is taken; an Err item
\* returns the error and leaves the cell, a sample replaces the cell's value;
\* the guard is dropped with the statement
Replace(k) ==
    /\ IF item[k] = ErrItem
       THEN /\ poller' = PollerFailed(poller, k)
            /\ stats' = [stats EXCEPT ![k] = CellAfterErr(@)]
       ELSE /\ poller' = [poller EXCEPT ![k] = "next"]
            /\ stats' = [stats EXCEPT ![k] = Replaced(@, item[k].sample)]
    /\ item' = [item EXCEPT ![k] = NoItem]
    /\ UNCHANGED <<spawned, recvd, outerLock, dpc, listRes, listing, fresh,
                   rpc, todo, frame>>
    /\ UNCHANGED <<batchVars, envVars, portVars, renderVars>>

\* the statement as one step: the cell's guard is held over no suspension
\* point
PollerReplace(k) ==
    /\ proc = "running"
    /\ poller[k] = "lock_replace"
    /\ Replace(k)

\* mutant of Taken: the cell is left as it is at stream end
TakenKeeps(cell) == cell

\* Option::take(): the cell is empty
Taken(cell) == Empty

\* stat.lock().await.take(); Ok(()): the cell's lock is taken, the cell is
\* emptied, the guard is dropped and the poller is over
Take(k) ==
    /\ stats' = [stats EXCEPT ![k] = Taken(@)]
    /\ poller' = [poller EXCEPT ![k] = "ok"]
    /\ UNCHANGED <<spawned, item, recvd, outerLock, dpc, listRes, listing,
                   fresh, rpc, todo, frame>>
    /\ UNCHANGED <<batchVars, envVars, portVars, renderVars>>

\* the statement as one step
PollerTake(k) ==
    /\ proc = "running"
    /\ poller[k] = "lock_take"
    /\ Take(k)

\* ---- render loop: stats ----

\* if !keep_screen { execute!(stdout(), EnterAlternateScreen)?;
\* tokio::spawn(..) }: the sequence is written and the interrupt task is
\* spawned, in that order and before the loop
ScreenSetup ==
    /\ proc = "running"
    /\ rpc = "start"
    /\ rpc' = "frame"
    /\ IF keep_screen
       THEN UNCHANGED <<screen, termOps, handler>>
       ELSE /\ screen' = "alternate"
            /\ termOps' = termOps \cup {"EnterAlternateScreen"}
            /\ handler' = "spawned"
    /\ UNCHANGED <<stats, spawned, poller, item, recvd, outerLock, dpc,
                   listRes, listing, fresh, todo, frame>>
    /\ UNCHANGED <<engine, listFailed, keep_screen, proc>>
    /\ UNCHANGED <<batchVars, portVars, renderVars>>

\* execute!(stdout(), EnterAlternateScreen)? fails: stats returns the error
\* and main ends the process with it
EnterFail ==
    /\ proc = "running"
    /\ rpc = "start"
    /\ ~keep_screen
    /\ proc' = "returned_err"
    /\ UNCHANGED <<stats, spawned, poller, item, recvd, outerLock, dpc,
                   listRes, listing, fresh, rpc, todo, frame>>
    /\ UNCHANGED <<engine, listFailed, keep_screen, screen, termOps, handler>>
    /\ UNCHANGED <<batchVars, portVars, renderVars>>

\* mutant of Clears: the screen is cleared whatever the flag
ClearsAlways(ks) == TRUE

\* if !keep_screen { execute!(stdout(), Clear(ClearType::All), MoveToRow(0))? }
Clears(ks) == ~ks

\* top of the loop: the screen is cleared unless it is kept, and a new frame
\* starts with the header row
RenderHeader ==
    /\ proc = "running"
    /\ rpc = "frame"
    /\ termOps' = (IF Clears(keep_screen)
                   THEN termOps \cup {"Clear", "MoveToRow"} ELSE termOps)
    /\ frame' = <<>>
    /\ rpc' = "lock"
    /\ UNCHANGED <<stats, spawned, poller, item, recvd, outerLock, dpc,
                   listRes, listing, fresh, todo>>
    /\ UNCHANGED <<engine, listFailed, keep_screen, screen, handler, proc>>
    /\ UNCHANGED <<batchVars, portVars, renderVars>>

\* execute!(stdout(), Clear(..), MoveToRow(0))? fails: stats returns the
\* error and main ends the process with it
ClearFail ==
    /\ proc = "running"
    /\ rpc = "frame"
    /\ Clears(keep_screen)
    /\ proc' = "returned_err"
    /\ UNCHANGED <<stats, spawned, poller, item, recvd, outerLock, dpc,
                   listRes, listing, fresh, rpc, todo, frame>>
    /\ UNCHANGED <<engine, listFailed, keep_screen, screen, termOps, handler>>
    /\ UNCHANGED <<batchVars, portVars, renderVars>>

\* mutant of AfterEmptyPass: with nothing to show the render loop ends
AfterEmptyPassEnds == "done"

\* the for loop over an empty map falls through to interval.tick().await
AfterEmptyPass == "tick"

\* stats.lock().await: the guard lives as long as the for loop, which ends
\* at once over an empty map
RenderLock ==
    /\ proc = "running"
    /\ rpc = "lock"
    /\ outerLock = None
    /\ IF Keys = {}
       THEN /\ rpc' = AfterEmptyPass
            /\ UNCHANGED <<outerLock, todo>>
       ELSE /\ outerLock' = "render"
            /\ todo' = Keys
            /\ rpc' = "lock_cell"
    /\ UNCHANGED <<stats, spawned, poller, item, recvd, dpc, listRes, listing,
                   fresh, frame>>
    /\ UNCHANGED <<batchVars, envVars, portVars, renderVars>>

\* mutant of Row: the row shows the sample after the one the cell holds
RowAhead(k, c) ==
    IF c = Empty THEN <<>> ELSE <<[id |-> k, sample |-> c[1] + 1]>>

\* mutant of Row: an empty cell is printed as a blank row
RowBlankForEmpty(k, cell) ==
    IF cell = Empty THEN <<[id |-> k, sample |-> 0]>>
    ELSE <<[id |-> k, sample |-> cell[1]]>>

\* the body of the for loop: if let Some(stat) = stat_guard.as_ref() prints
\* one row, else continue prints nothing
Row(k, cell) ==
    IF cell = Empty THEN <<>> ELSE <<[id |-> k, sample |-> cell[1]]>>

\* the sample last printed for each key, after the turn of the loop for k
Shown(sh, k, c) == IF c = Empty THEN sh ELSE [sh EXCEPT ![k] = c[1]]

\* mutant of OuterGuardAfterLoop: the outer guard outlives the for loop
OuterGuardKept == "render"

\* the guard of stats.lock().await is a temporary of the for loop's iterator
\* expression: it is dropped when the loop ends, before interval.tick()
OuterGuardAfterLoop == None

\* the body of one turn of the for loop, for the cell of k, under its
\* guard: an empty cell is skipped and a sample is printed as a row, and
\* stat_guard is dropped; after the last cell the outer guard is dropped too
PrintRow(k) ==
    /\ frame' = frame \o Row(k, stats[k])
    /\ shown' = Shown(shown, k, stats[k])
    /\ todo' = todo \ {k}
    /\ cur' = None
    /\ IF todo = {k}
       THEN outerLock' = OuterGuardAfterLoop /\ rpc' = "tick"
       ELSE outerLock' = outerLock /\ rpc' = "lock_cell"
    /\ UNCHANGED <<stats, spawned, poller, item, recvd, dpc, listRes, listing,
                   fresh>>
    /\ UNCHANGED <<batchVars, envVars, portVars>>

\* one turn of the for loop over stats.values(), in the map's order (any
\* order), as one step: stat.lock().await is granted and the body runs
RenderRow ==
    /\ proc = "running"
    /\ rpc = "lock_cell"
    /\ cur = None
    /\ \E k \in todo : PrintRow(k)

\* interval.tick().await of the render loop
RenderTick ==
    /\ proc = "running"
    /\ rpc = "tick"
    /\ rpc' = "frame"
    /\ UNCHANGED <<stats, spawned, poller, item, recvd, outerLock, dpc,
                   listRes, listing, fresh, todo, frame>>
    /\ UNCHANGED <<batchVars, envVars, portVars, renderVars>>

\* a step of the stats future itself
RenderStep ==
    \/ ScreenSetup
    \/ RenderHeader
    \/ RenderLock
    \/ RenderRow
    \/ RenderTick

\* ---- the lock statements, acquisition apart from the guarded code ----

\* who holds the lock of the cell of k
CellHolder(k) ==
    IF poller[k] \in {"replace", "take"} THEN "poller"
    ELSE IF rpc = "cell" /\ cur = k THEN "render"
    ELSE None

\* stats_clone.lock().await of the discovery loop is granted
DiscLock ==
    /\ proc = "running"
    /\ dpc = "lock"
    /\ outerLock = None
    /\ outerLock' = "discovery"
    /\ dpc' = "update"
    /\ UNCHANGED <<stats, spawned, poller, item, recvd, listRes, listing,
                   fresh, rpc, todo, frame>>
    /\ UNCHANGED <<batchVars, envVars, portVars, renderVars>>

\* .update(..).await under the guard DiscLock took
DiscUpdateHeld ==
    /\ proc = "running"
    /\ dpc = "update"
    /\ UpdatePass

\* stat.lock().await of the poller of k, in either statement, is granted
PollerLock(k) ==
    /\ proc = "running"
    /\ poller[k] \in {"lock_replace", "lock_take"}
    /\ CellHolder(k) = None
    /\ poller' = [poller EXCEPT ![k] = IF @ = "lock_replace" THEN "replace" ELSE "take"]
    /\ UNCHANGED <<stats, spawned, item, recvd, outerLock, dpc, listRes,
                   listing, fresh, rpc, todo, frame>>
    /\ UNCHANGED <<batchVars, envVars, portVars, renderVars>>

\* .replace(item?) under the guard PollerLock took
PollerReplaceHeld(k) ==
    /\ proc = "running"
    /\ poller[k] = "replace"
    /\ Replace(k)

\* .take() under the guard PollerLock took
PollerTakeHeld(k) ==
    /\ proc = "running"
    /\ poller[k] = "take"
    /\ Take(k)

\* the for loop's iterator yields the next cell, in the map's order (any
\* order), and stat.lock().await is called on it
RenderPick ==
    /\ proc = "running"
    /\ rpc = "lock_cell"
    /\ cur = None
    /\ \E k \in todo : cur' = k
    /\ rpc' = "wait_cell"
    /\ UNCHANGED <<stats, spawned, poller, item, recvd, outerLock, dpc,
                   listRes, listing, fresh, todo, frame, shown>>
    /\ UNCHANGED <<batchVars, envVars, portVars>>

\* stat.lock().await of the render loop is granted
RenderLockCell ==
    /\ proc = "running"
    /\ rpc = "wait_cell"
    /\ CellHolder(cur) = None
    /\ rpc' = "cell"
    /\ UNCHANGED <<stats, spawned, poller, item, recvd, outerLock, dpc,
                   listRes, listing, fresh, todo, frame>>
    /\ UNCHANGED <<batchVars, envVars, portVars, renderVars>>

\* the body of the for loop under the guard RenderLockCell took
RenderRowHeld ==
    /\ proc = "running"
    /\ rpc = "cell"
    /\ PrintRow(cur)

\* ---- interrupt task and signals: stats ----

\* first poll of the spawned task: ctrl_c() registers for the signal and
\* the task waits for it
HandlerWait ==
    /\ proc = "running"
    /\ handler = "spawned"
    /\ handler' = "waiting"
    /\ UNCHANGED <<stats, spawned, poller, item, recvd, outerLock, dpc,
                   listRes, listing, fresh, rpc, todo, frame>>
    /\ UNCHANGED <<engine, listFailed, keep_screen, screen, termOps, proc>>
    /\ UNCHANGED <<batchVars, portVars, renderVars>>

\* the user interrupts the process: a registered ctrl_c() wakes the task,
\* and while none is registered the signal's default action ends the
\* process at once
Interrupt ==
    /\ proc = "running"
    /\ handler \in {"none", "spawned", "waiting"}
    /\ IF handler = "waiting"
       THEN handler' = "signalled" /\ UNCHANGED proc
       ELSE proc' = "killed" /\ UNCHANGED handler
    /\ UNCHANGED <<stats, spawned, poller, item, recvd, outerLock, dpc,
                   listRes, listing, fresh, rpc, todo, frame>>
    /\ UNCHANGED <<engine, listFailed, keep_screen, screen, termOps>>
    /\ UNCHANGED <<batchVars, portVars, renderVars>>

\* mutant of Restored: the screen is left as it is
RestoredKeeps(scr) == scr

\* LeaveAlternateScreen: back to the normal buffer
Restored(scr) == "normal"

\* execute!(stdout(), LeaveAlternateScreen).unwrap()
HandlerRestore ==
    /\ proc = "running"
    /\ handler = "signalled"
    /\ screen' = Restored(screen)
    /\ termOps' = termOps \cup {"LeaveAlternateScreen"}
    /\ handler' = "restored"
    /\ UNCHANGED <<stats, spawned, poller, item, recvd, outerLock, dpc,
                   listRes, listing, fresh, rpc, todo, frame>>
    /\ UNCHANGED <<engine, listFailed, keep_screen, proc>>
    /\ UNCHANGED <<batchVars, portVars, renderVars>>

\* std::process::exit(0)
HandlerExit ==
    /\ proc = "running"
    /\ handler = "restored"
    /\ proc' = "exit0"
    /\ UNCHANGED <<stats, spawned, poller, item, recvd, outerLock, dpc,
                   listRes, listing, fresh, rpc, todo, frame>>
    /\ UNCHANGED <<engine, listFailed, keep_screen, screen, termOps, handler>>
    /\ UNCHANGED <<batchVars, portVars, renderVars>>

\* the batch variables while the stats command runs
BatchIdle ==
    /\ rm = FALSE
    /\ IoInit
    /\ op = "stats"
    /\ containers = <<>>
    /\ attach = FALSE
    /\ interactive = FALSE
    /\ pc = "stats"
    /\ unit = <<>>
    /\ res = <<>>
    /\ calls = <<>>
    /\ attachRes = None
    /\ attach_join = <<>>
    /\ task = [t \in {"relay", "input"} |-> "none"]
    /\ out = <<>>
    /\ log = <<>>
    /\ ret = None

StatsSpecInit == BatchIdle /\ StatsInit /\ PortsInit

StatsNext ==
    \/ DiscList
    \/ DiscUpdate
    \/ DiscTick
    \/ \E k \in StatIds : PollerNext(k)
    \/ \E k \in StatIds : PollerReplace(k)
    \/ \E k \in StatIds : PollerTake(k)
    \/ ScreenSetup
    \/ RenderHeader
    \/ RenderLock
    \/ RenderRow
    \/ RenderTick

\* the stats command while the terminal takes every write and nobody
\* interrupts
StatsSpec == StatsSpecInit /\ [][StatsNext]_vars

\* the stats command with every lock acquisition a step of its own
LockNext ==
    \/ DiscList
    \/ DiscLock
    \/ DiscUpdateHeld
    \/ DiscTick
    \/ \E k \in StatIds : PollerNext(k)
    \/ \E k \in StatIds : PollerLock(k)
    \/ \E k \in StatIds : PollerReplaceHeld(k)
    \/ \E k \in StatIds : PollerTakeHeld(k)
    \/ ScreenSetup
    \/ RenderHeader
    \/ RenderLock
    \/ RenderPick
    \/ RenderLockCell
    \/ RenderRowHeld
    \/ RenderTick

\* tokio runs every task that is ready: code that holds a lock runs on to
\* the release; tokio's Mutex is fair (first in, first out): a task that
\* waits for a lock which is free again and again is granted it
LockFairness ==
    /\ WF_vars(DiscUpdateHeld)
    /\ WF_vars(RenderPick)
    /\ WF_vars(RenderRowHeld)
    /\ \A k \in StatIds : WF_vars(PollerReplaceHeld(k))
    /\ \A k \in StatIds : WF_vars(PollerTakeHeld(k))
    /\ SF_vars(DiscLock)
    /\ SF_vars(RenderLock)
    /\ SF_vars(RenderLockCell)
    /\ \A k \in StatIds : SF_vars(PollerLock(k))

\* stats(docker, true) on an engine with one container
LockInit ==
    /\ StatsStart("list", "start")
    /\ engine = {"X"}
    /\ keep_screen = TRUE

LockSpecInit == BatchIdle /\ LockInit /\ PortsInit

LockSpec == LockSpecInit /\ [][LockNext]_vars /\ LockFairness

ScreenSpecInit == BatchIdle /\ ScreenInit /\ PortsInit

ScreenNext ==
    \/ DiscList
    \/ DiscUpdate
    \/ DiscTick
    \/ \E k \in StatIds : PollerNext(k)
    \/ \E k \in StatIds : PollerReplace(k)
    \/ \E k \in StatIds : PollerTake(k)
    \/ ScreenSetup
    \/ EnterFail
    \/ RenderHeader
    \/ ClearFail
    \/ RenderLock
    \/ RenderRow
    \/ RenderTick
    \/ HandlerWait
    \/ Interrupt
    \/ HandlerRestore
    \/ HandlerExit

\* the stats command with terminal failures and interrupts
ScreenSpec == ScreenSpecInit /\ [][ScreenNext]_vars

\* the same, with the runtime scheduling the stats future whenever it can
\* go on: its timer fires and its locks are granted
ScreenLiveSpec == ScreenSpecInit /\ [][ScreenNext]_vars /\ WF_vars(RenderStep)

Init == BatchInit /\ StatsIdle /\ PortsInit

Next ==
    \/ Enter
    \/ AttachCall
    \/ AttachReturn
    \/ \E i \in Targets : Spawn(i)
    \/ Dispatched
    \/ \E i \in Targets : UnitCall(i)
    \/ \E i \in Targets : UnitReturn(i)
    \/ JoinAll
    \/ RelayNext
    \/ RelayWrite
    \/ RelayFlushOut
    \/ RelayFlushErr
    \/ RelayEnd
    \/ RelayFail
    \/ InputRead
    \/ InputWrite
    \/ InputFail
    \/ AttachJoin

Spec == Init /\ [][Next]_vars

RunSpecInit == RunInit /\ StatsIdle /\ PortsInit

RunNext ==
    \/ RunCreateCall
    \/ RunCreateReturn
    \/ AttachCall
    \/ AttachReturn
    \/ RunStartCall
    \/ RunStartReturn
    \/ RelayNext
    \/ RelayWrite
    \/ RelayFlushOut
    \/ RelayFlushErr
    \/ RelayEnd
    \/ RelayFail
    \/ RunJoin
    \/ RunRemoveCall
    \/ RunRemoveReturn

\* the run command
RunSpec == RunSpecInit /\ [][RunNext]_vars

\* the publish arguments of run are turned into port bindings before run
\* is entered
PortsSpecInit == RunInit /\ rm = FALSE /\ StatsIdle /\ PortsInit

PortsNext == PortSpecStep

\* get_port_bindings over every list of port specs
PortsSpec == PortsSpecInit /\ [][PortsNext]_vars

(***************************************************************************)
(* Properties of the batch dispatcher.                                     *)
(***************************************************************************)
Returned == ret # None

\* the command went past its precondition and its attach: the units were
\* dispatched and joined
DispatchReturned == Returned /\ ret \notin {"MultiAttachUnsupported", "AttachError"}

\* number of engine calls of the command's own operation issued for id
UnitCalls(id) ==
    Cardinality({k \in 1..Len(calls) :
                    calls[k] = [api |-> EngineOp(op), target |-> id]})

\* number of units for id that succeeded
Succeeded(id) ==
    Cardinality({i \in Targets : containers[i] = id /\ res[i].kind = "ok"})

SomeFailed == \E i \in Targets : res[i].kind \in {"err", "panic"}

\* C1 as stated: whenever a batch command (start, stop, rm, rmi) has
\* returned, the engine operation was invoked exactly once for every input
\* target.
C1_EveryCommandCallsEveryTarget ==
    Returned => \A id \in Ids : UnitCalls(id) = Count(containers, id)

\* C1 amended: the engine operation is never invoked more often for a target
\* than the target is listed, and when stop, rm, rmi, or a start that passed
\* its precondition and its attach, has returned, every unit has finished and
\* the operation was invoked exactly once per listed target, whichever units
\* failed and in whatever order they completed.
C1_DispatchCallsEveryTargetOnce ==
    /\ \A id \in Ids : UnitCalls(id) <= Count(containers, id)
    /\ DispatchReturned =>
          /\ \A i \in Targets : unit[i] = "finished"
          /\ \A id \in Ids : UnitCalls(id) = Count(containers, id)

\* C1 witness: a batch of three, the second failed, the others succeeded,
\* and the command has returned.
C1_Witness ==
    /\ Returned
    /\ Len(containers) = 3
    /\ containers[1] # containers[2]
    /\ res[1].kind = "ok" /\ res[2].kind = "err" /\ res[3].kind = "ok"
    /\ Len(calls) = 3

\* C2: a batch command outside attach mode returns an error if and only if
\* at least one of its units failed (engine error or join failure), and Ok
\* when every unit succeeded.
C2_ErrorIffUnitFailed ==
    (Returned /\ ~AttachMode) =>
        /\ ret \in {"Ok", "BatchFailed"}
        /\ (ret = "BatchFailed") <=> SomeFailed

\* C2 witness: a failed unit followed by a successful one, and the command
\* returned the batch error.
C2_Witness ==
    /\ ~AttachMode
    /\ ret = "BatchFailed"
    /\ \E i, j \in Targets : i < j /\ res[i].kind = "panic" /\ res[j].kind = "ok"

\* C3: when start, stop or rm has returned, every identifier was printed
\* once per unit of it that succeeded, also when other units failed.
C3_SuccessPrintedOnce ==
    (Returned /\ op \in {"start", "stop", "rm"}) =>
        \A id \in Ids : Count(out, [kind |-> "id", text |-> id]) = Succeeded(id)

\* C3 witness: the command failed as a whole, yet a unit after the failed one
\* succeeded and its identifier is on standard output.
C3_Witness ==
    /\ op \in {"start", "stop", "rm"}
    /\ ret = "BatchFailed"
    /\ \E i, j \in Targets :
          /\ i < j /\ res[i].kind = "err" /\ res[j].kind = "ok"
          /\ Count(out, [kind |-> "id", text |-> containers[j]]) = 1

\* C4: while a spawned unit has not finished, the batch command has not
\* returned, whatever the other units did; and every finished unit ended
\* with the outcome of its own engine call.
C4_ReturnsAfterAllUnits ==
    \A i \in Targets :
        /\ unit[i] \in {"spawned", "calling"} =>
              ~Returned /\ pc \in {"dispatch", "join"}
        /\ unit[i] = "finished" => res[i] \in Outcomes(op)

\* C4 witness: one unit has failed, another is still in its engine call, and
\* the command is still waiting.
C4_Witness ==
    /\ pc = "join"
    /\ ~Returned
    /\ \E i, j \in Targets :
          /\ unit[i] = "finished" /\ res[i].kind = "err"
          /\ unit[j] = "calling"

\* C5: start with attach or interactive and a number of targets other than
\* one goes from entry straight to the multi-attach error: no engine call is
\* issued and no task is spawned.
C5_MultiAttachFailsFast ==
    (op = "start" /\ (attach \/ interactive) /\ Len(containers) # 1) =>
        /\ calls = <<>>
        /\ \A i \in Targets : unit[i] = "unspawned"
        /\ \A t \in DOMAIN task : task[t] = "none"
        /\ pc \in {"entry", "done"}
        /\ pc = "done" => ret = "MultiAttachUnsupported"

\* C5 witness: interactive start of two containers has returned.
C5_Witness ==
    /\ op = "start" /\ interactive /\ Len(containers) = 2
    /\ Returned

\* C6: in start with attach or interactive, a start call is issued only
\* after the attach call has returned Ok; when the attach call fails, start
\* returns that error and no start call is issued.
C6_AttachBeforeStart ==
    AttachMode =>
        /\ \A k \in 1..Len(calls) :
              calls[k].api = "start_container" =>
                  /\ attachRes = "ok"
                  /\ \E j \in 1..(k - 1) : calls[j].api = "attach_container"
        /\ \A i \in Targets : unit[i] # "unspawned" => attachRes = "ok"
        /\ attachRes = "err" =>
              /\ pc = "done" /\ ret = "AttachError"
              /\ \A k \in 1..Len(calls) : calls[k].api # "start_container"

\* C6 witness: in attach mode the start call has been issued.
C6_Witness ==
    /\ AttachMode
    /\ \E k \in 1..Len(calls) : calls[k].api = "start_container"

\* C7 as stated: start in attach mode never returns, with success or with
\* failure, while an attach task it spawned is still running.
C7_NeverReturnsWhileAttachRuns ==
    (AttachMode /\ Returned) => \A t \in DOMAIN task : task[t] # "running"

\* C7 amended: start in attach mode returns Ok or an attach task's error
\* only after every attach task it spawned has ended; the one return that
\* may leave an attach task running is the batch error of a failed start
\* unit, which is returned before the attach tasks are joined.
C7_JoinsAttachUnlessStartFailed ==
    (AttachMode /\ Returned) =>
        \/ ret = "BatchFailed"
        \/ \A t \in DOMAIN task : task[t] # "running"

\* C7 witness: interactive start returned after both attach tasks ended.
C7_Witness ==
    /\ AttachMode /\ interactive
    /\ Returned /\ ret = "TaskError"
    /\ task["relay"] = "ok" /\ task["input"] = "err"

(***************************************************************************)
(* Properties of the stats aggregator, under StatsSpec.                    *)
(***************************************************************************)
\* the discovery loop has finished the pass over a listing it obtained
EndOfPass == dpc = "tick" /\ listRes = "ok"

\* key X is in the cache, its one poller was started, and its cell is
\* empty as long as its stream has delivered nothing
Registered(X) ==
    /\ X \in Keys
    /\ spawned[X] = 1
    /\ poller[X] # "none"
    /\ recvd[X] = 0 => stats[X] = Empty

\* C8 as stated: at the end of a discovery pass over a successful listing,
\* every id of the listing that was no key yet is a key with a poller
\* started, its cell empty until its first sample is received.
C8_EveryNewListedIdRegistered ==
    EndOfPass => \A X \in fresh : Registered(X)

\* C8 amended: at the end of a discovery pass over a successful listing,
\* every id that was no key yet and is listed before any summary without an
\* id is a key with its poller started; and every cell is empty until the
\* first sample of its stream is received.
C8_NewIdBeforeIdlessRegistered ==
    /\ EndOfPass =>
          \A i \in 1..Len(listing) :
              (listing[i] \in fresh /\ \A j \in 1..i : listing[j] # None)
                  => Registered(listing[i])
    /\ \A X \in Keys : recvd[X] = 0 => stats[X] = Empty

\* C8 witness: the pass over a listing that brought the new id X has ended;
\* X is a key with an empty cell and its poller waits for the first sample.
C8_Witness ==
    /\ EndOfPass
    /\ "X" \in fresh
    /\ "X" \in Keys /\ stats["X"] = Empty
    /\ poller["X"] = "next" /\ recvd["X"] = 0

\* C9: no step of the discovery loop, of a poller or of the render loop
\* removes a key from the cache.
C9_KeysOnlyGrow == [][Keys \subseteq DOMAIN stats']_vars

\* C9 witness: X is still a key after its poller has ended and a later
\* listing no longer names it.
C9_Witness ==
    /\ "X" \in Keys
    /\ poller["X"] \in {"ok", "err"}
    /\ EndOfPass
    /\ \A i \in 1..Len(listing) : listing[i] # "X"

\* C10: a poller stores every sample it receives before it reads the next,
\* so the cell follows the stream in order; after a normal stream end the
\* poller has ended, its key is still in the cache and its cell is empty.
C10_PollerStoresInOrderThenClears ==
    \A k \in StatIds :
        /\ poller[k] # "none" => k \in Keys
        /\ poller[k] = "next" =>
              stats[k] = (IF recvd[k] = 0 THEN Empty ELSE Some(recvd[k]))
        /\ (poller[k] = "lock_replace" /\ item[k].tag = "ok") =>
              /\ item[k].sample = recvd[k]
              /\ stats[k] = (IF recvd[k] = 1 THEN Empty ELSE Some(recvd[k] - 1))
        /\ poller[k] = "ok" => stats[k] = Empty

\* C10 witness: the poller of X stored two samples, then its stream ended;
\* the cell is empty, and a later listing names X again.
C10_Witness ==
    /\ poller["X"] = "ok" /\ recvd["X"] = 2
    /\ "X" \in Keys /\ stats["X"] = Empty
    /\ EndOfPass /\ \E i \in 1..Len(listing) : listing[i] = "X"

\* the rows of frame fr that are about container k
RowsOf(fr, k) == {i \in 1..Len(fr) : fr[i].id = k}

\* C11: whenever the render loop reads the cell of k it prints exactly one
\* row for k, showing the cell's sample, if the cell holds a sample and
\* nothing if the cell is empty; no other step prints a row; and once the
\* poller of k has cleared the cell at stream end no row for k is printed
\* any more, so no frame that starts afterwards has one.
C11_RowIffCellHoldsSample ==
    [][\A k \in StatIds :
        /\ (rpc = "lock_cell" /\ k \in todo /\ k \notin todo') =>
              frame' = (IF stats[k] = Empty THEN frame
                        ELSE Append(frame, [id |-> k, sample |-> stats[k][1]]))
        /\ ~(rpc = "lock_cell" /\ k \in todo /\ k \notin todo') =>
              Cardinality(RowsOf(frame', k)) <= Cardinality(RowsOf(frame, k))
        /\ poller[k] = "ok" =>
              Cardinality(RowsOf(frame', k)) <= Cardinality(RowsOf(frame, k))
      ]_vars

\* C11 witness: a frame is complete over the keys X and Y; X's poller had
\* stored a sample and then cleared the cell, and X has no row, while Y,
\* whose cell holds a sample, has its row.
C11_Witness ==
    /\ rpc = "tick"
    /\ Keys = {"X", "Y"}
    /\ poller["X"] = "ok" /\ recvd["X"] >= 1
    /\ stats["Y"] # Empty
    /\ frame = <<[id |-> "Y", sample |-> stats["Y"][1]]>>

\* C12 as stated: no task holds a cache lock at a suspension point. Every
\* state of the model has each task at one of its await expressions, so the
\* statement is that the outer lock is free in every state.
C12_NoLockAcrossSuspension == outerLock = None

\* C12: no task holds a cache lock while it waits for a network sample, a
\* listing or a timer tick; the one suspension point at which a lock is held
\* is the render loop's stat.lock().await, reached with the outer lock held
\* for the whole pass over the map.
C12_OuterLockHeldOnlyOverCellLocks ==
    /\ outerLock \in {None, "render"}
    /\ outerLock = "render" => (rpc = "lock_cell" /\ todo # {})
    /\ rpc \in {"frame", "lock", "tick"} => outerLock = None

\* C12 witness: the render loop holds the outer lock and is about to take a
\* cell's lock, while the discovery loop waits for the outer lock and a
\* poller waits for a cell's lock.
C12_Witness ==
    /\ rpc = "lock_cell" /\ outerLock = "render"
    /\ dpc = "lock"
    /\ \E k \in Keys : poller[k] = "lock_replace" /\ k \in todo

\* C13: the step in which a listing fails changes nothing but the discovery
\* loop's own position: the cache, the pollers and the render loop are as
\* before; the discovery loop then waits for its tick and lists again; and
\* at the end of a pass over a later successful listing the new ids (those
\* listed before any summary without an id) are registered.
C13_FailedListingNonFatal ==
    /\ [][(dpc = "list" /\ listRes' = "err") =>
            /\ dpc' = "tick"
            /\ stats' = stats /\ spawned' = spawned /\ poller' = poller
            /\ item' = item /\ recvd' = recvd /\ outerLock' = outerLock
            /\ rpc' = rpc /\ todo' = todo /\ frame' = frame
            /\ proc' = proc
         ]_vars
    /\ []((listRes = "err" /\ proc = "running") =>
              (dpc = "tick" /\ ENABLED DiscTick))
    /\ []((listFailed /\ dpc = "list" /\ proc = "running") => ENABLED DiscList)
    /\ []((listFailed /\ EndOfPass) =>
              \A i \in 1..Len(listing) :
                  (listing[i] \in fresh /\ \A j \in 1..i : listing[j] # None)
                      => Registered(listing[i]))

\* C13 witness: after a failed listing, a pass over a successful listing
\* that brought the new id X has ended with X registered, while the poller
\* of Y, started earlier, is still at work.
C13_Witness ==
    /\ listFailed
    /\ EndOfPass
    /\ "X" \in fresh
    /\ "X" \in Keys /\ poller["X"] = "next" /\ spawned["X"] = 1
    /\ "Y" \in Keys \ fresh /\ poller["Y"] = "next"

\* C14: the step in which the poller of k ends with a transport error
\* changes nothing else: the other pollers, the cache, the discovery loop,
\* the render loop and the process are as before; and with a poller ended
\* in error the other pollers can still take and store their next item and
\* the render and discovery loops are still in their cycles.
C14_StreamErrorEndsOnlyItsPoller ==
    /\ [][\A k \in StatIds : (poller[k] # "err" /\ poller'[k] = "err") =>
            /\ \A j \in StatIds \ {k} :
                  poller'[j] = poller[j] /\ item'[j] = item[j]
            /\ stats' = stats /\ recvd' = recvd /\ spawned' = spawned
            /\ dpc' = dpc /\ rpc' = rpc /\ outerLock' = outerLock
            /\ proc' = proc /\ ret' = ret
         ]_vars
    /\ []((proc = "running" /\ \E k \in StatIds : poller[k] = "err") =>
            /\ \A j \in StatIds :
                  /\ poller[j] = "next" => ENABLED PollerNext(j)
                  /\ poller[j] = "lock_replace" => ENABLED PollerReplace(j)
                  /\ poller[j] = "lock_take" => ENABLED PollerTake(j)
            /\ ENABLED RenderStep
            /\ dpc \in {"list", "lock", "tick"}
            /\ ret = None)

\* C14 witness: the stream of X failed at its first item, and the poller of
\* Y is about to store the last sample of its stream while the row of Y's
\* earlier sample is on the screen.
C14_Witness ==
    /\ Keys = {"X", "Y"}
    /\ poller["X"] = "err" /\ recvd["X"] = 0
    /\ poller["Y"] = "lock_replace" /\ item["Y"] = OkItem(MaxSamples)
    /\ \E n \in 1..MaxSamples : frame = <<[id |-> "Y", sample |-> n]>>

\* C15: as long as the process is neither interrupted nor ended by a failed
\* terminal write, the render loop completes a frame again and again,
\* whatever the listings and the streams do; stats returns only from a
\* failed terminal write, which only a run without --keep-screen performs,
\* and the process ends in no other way than that or an interrupt.
C15_NoNaturalTermination ==
    /\ []<>(rpc = "tick" \/ proc # "running")
    /\ [](proc \in {"running", "returned_err", "killed", "exit0"})
    /\ [](proc = "returned_err" => (~keep_screen /\ rpc \in {"start", "frame"}))
    /\ [](proc = "running" => rpc \in {"start", "frame", "lock", "lock_cell", "tick"})
    /\ [](ret = None)

\* C15 witness: every listing so far has failed or was empty, so there is
\* no container, and the render loop has completed a frame without rows.
C15_Witness ==
    /\ proc = "running"
    /\ rpc = "tick"
    /\ listFailed
    /\ Keys = {}
    /\ frame = <<>>

C17_KeepScreenAppendsOnly ==
    keep_screen =>
        /\ termOps = {}
        /\ screen = "normal"
        /\ handler = "none"
        /\ proc \in {"running", "killed"}

\* C17 witness: with --keep-screen a second frame is being printed, its row
\* for X already out, and nothing was cleared.
C17_Witness ==
    /\ keep_screen
    /\ proc = "running"
    /\ rpc = "tick"
    /\ recvd["X"] = MaxSamples
    /\ frame = <<[id |-> "X", sample |-> MaxSamples]>>

(***************************************************************************)
(* Properties of the attach tasks and of run.                              *)
(***************************************************************************)
RECURSIVE Relayed(_, _)
\* the messages of the first n chunks that are tagged for the stream, one
\* after the other
Relayed(n, stream) ==
    IF n = 0 THEN <<>>
    ELSE IF StreamOf(chunks[n].tag) = stream
         THEN Relayed(n - 1, stream) \o chunks[n].message
         ELSE Relayed(n - 1, stream)

\* C18 as stated: whenever the relay task is between two chunks (or has
\* ended at the end of the stream), the bytes on standard output are
\* exactly the messages of the StdOut and Console chunks so far, in order
\* and in full, the bytes on standard error those of the StdErr chunks,
\* and both streams are flushed.
C18_StreamsHoldChunksInFull ==
    (task["relay"] \in {"running", "ok"} /\ rpos = "next") =>
        /\ sout = Relayed(Len(chunks), "stdout")
        /\ serr = Relayed(Len(chunks), "stderr")
        /\ dirty = {}

\* C18 witness: the one chunk so far was a StdOut chunk of two bytes, the
\* write took the first byte only, and the relay task waits for the next
\* chunk.
C18_Witness ==
    /\ task["relay"] = "running" /\ rpos = "next"
    /\ chunks = <<Chunk(1, "StdOut")>>
    /\ sout = <<1>>
    /\ dirty = {}

RECURSIVE LinesRead(_)
\* the first n lines of standard input, one after the other
LinesRead(n) == IF n = 0 THEN <<>> ELSE LinesRead(n - 1) \o Line(n)

\* C19 as stated: whenever the input task is about to read, the bytes
\* delivered to the container's input are exactly the lines read so far,
\* each once and in order.
C19_InputIsLinesRead ==
    (task["input"] # "none" /\ ipos = "read") => sent = LinesRead(lines)

\* C19 witness: two lines were read and forwarded, and the container got
\* the first line twice.
C19_Witness ==
    /\ task["input"] = "running" /\ ipos = "read"
    /\ lines = 2
    /\ sent = Line(1) \o Line(1) \o Line(2)

\* C20 as stated: a command that has returned while its relay task had
\* ended with an error has returned an error.
C20_RelayErrorIsReturned ==
    (Returned /\ task["relay"] = "err") => ret # "Ok"

\* C20 witness: run has returned Ok although its relay task ended with an
\* error while the container ran.
C20_Witness ==
    /\ op = "run"
    /\ pc = "done" /\ ret = "Ok"
    /\ task["relay"] = "err"
    /\ Len(calls) >= 3

(***************************************************************************)
(* Reporting of the batch commands.                                        *)
(***************************************************************************)
\* number of units for id that failed: the engine's Err or a JoinError
Failed(id) ==
    Cardinality({i \in Targets : containers[i] = id /\ res[i].kind \in {"err", "panic"}})

\* C21 as stated: when a batch command has returned from its dispatch,
\* standard output holds for every target that succeeded one line with
\* that target's identifier, the error log holds for every target that
\* failed one entry carrying that target's identifier, and there is
\* nothing else: one result per target.
C21_OneResultPerTarget ==
    DispatchReturned =>
        /\ \A id \in Ids :
              /\ Cardinality({k \in 1..Len(out) : out[k] = [kind |-> "id", text |-> id]})
                    = Succeeded(id)
              /\ Cardinality({k \in 1..Len(log) : log[k].container = id})
                    = Failed(id)
        /\ Len(out) + Len(log) = Len(containers)

\* C21 witness: rmi of A and B has returned; A was removed and B failed in
\* the engine, and the one log entry names no image.
C21_Witness ==
    /\ op = "rmi"
    /\ DispatchReturned
    /\ containers = <<"A", "B">>
    /\ res[1].kind = "ok" /\ res[2].kind = "err"
    /\ Len(log) = 1 /\ log[1].container = None

(***************************************************************************)
(* Properties of get_port_bindings, under PortsSpec.                       *)
(***************************************************************************)
\* position of the first colon of s, 0 if it has none
FirstColon(s) ==
    LET P == {k \in 1..Len(s) : s[k] = ":"} IN
    IF P = {} THEN 0 ELSE CHOOSE k \in P : \A j \in P : k <= j

RECURSIVE Fields(_)
\* the colon-separated fields of s, read from the left
Fields(s) ==
    IF FirstColon(s) = 0 THEN <<s>>
    ELSE <<SubSeq(s, 1, FirstColon(s) - 1)>>
         \o Fields(SubSeq(s, FirstColon(s) + 1, Len(s)))

\* s has one of the forms containerPort, hostPort:containerPort,
\* hostIP:hostPort:containerPort
InForm(s) == Len(Fields(s)) <= 3

\* the container port a spec in one of the forms names
ContainerPortOf(s) == Fields(s)[Len(Fields(s))]

\* the (host IP, host port) pair of a spec in one of the forms, if it has
\* a host part
HostPart(s) ==
    LET f == Fields(s) IN
    IF Len(f) = 1 THEN <<>>
    ELSE IF Len(f) = 2
         THEN <<[host_ip |-> NoStr, host_port |-> SomeStr(f[1])]>>
         ELSE <<[host_ip |-> SomeStr(f[1]), host_port |-> SomeStr(f[2])]>>

RECURSIVE HostParts(_, _)
\* the pairs of the first n specs that name port p, in order of appearance
HostParts(p, n) ==
    IF n = 0 THEN <<>>
    ELSE HostParts(p, n - 1)
         \o (IF ContainerPortOf(input[n]) = p THEN HostPart(input[n]) ELSE <<>>)

\* C22: for every list of specs in the three forms get_port_bindings
\* succeeds; the keys of its map are exactly the container ports the specs
\* name, and the value of a port is the list of the host pairs of the
\* specs that name it with a host part, in order of appearance; a bare
\* port adds its key and leaves the pairs gathered so far.
C22_KeysAndBindingsOfForms ==
    (\A i \in 1..Len(input) : InForm(input[i])) =>
        /\ perr = NoStr /\ ~ppanic
        /\ DOMAIN bindings = {ContainerPortOf(input[i]) : i \in 1..Len(input)}
        /\ \A p \in DOMAIN bindings : bindings[p] = HostParts(p, Len(input))

\* C22 witness: the specs 11:1 and 1:1:1 name the same port 1, whose value
\* holds both pairs in the order of the specs.
C22_Witness ==
    /\ input = << <<"1", "1", ":", "1">>, <<"1", ":", "1", ":", "1">> >>
    /\ DOMAIN bindings = {<<"1">>}
    /\ bindings[<<"1">>] =
          << [host_ip |-> NoStr, host_port |-> SomeStr(<<"1", "1">>)],
             [host_ip |-> SomeStr(<<"1">>), host_port |-> SomeStr(<<"1">>)] >>

\* positions of the colons of s
Colons(s) == {k \in 1..Len(s) : s[k] = ":"}

\* position of the colon of s that has exactly n colons after it
ColonFromEnd(s, n) ==
    CHOOSE k \in Colons(s) : Cardinality({j \in Colons(s) : j > k}) = n

\* C23: a spec is split from the right into at most three fields: for a
\* spec with two or more colons the port is the text after the last colon,
\* the host port the text between the last two colons and the host IP
\* everything before the second-to-last colon, colons included.
C23_SplitFromRightKeepsHostIp ==
    input # <<>> =>
        LET s == input[Len(input)]
            last == ColonFromEnd(s, 0)
            prev == ColonFromEnd(s, 1)
            port == SubSeq(s, last + 1, Len(s))
        IN  /\ Len(Parts(s)) <= 3
            /\ Cardinality(Colons(s)) >= 2 =>
                /\ perr = NoStr /\ ~ppanic
                /\ port \in DOMAIN bindings
                /\ bindings[port] # <<>>
                /\ bindings[port][Len(bindings[port])] =
                      [host_ip |-> SomeStr(SubSeq(s, 1, prev - 1)),
                       host_port |-> SomeStr(SubSeq(s, prev + 1, last - 1))]

\* C23 witness: the spec ::1:1 has three colons; its host IP is the text
\* before the second-to-last colon, which is itself a colon.
C23_Witness ==
    /\ input = << <<":", ":", "1", ":", "1">> >>
    /\ DOMAIN bindings = {<<"1">>}
    /\ bindings[<<"1">>] =
          << [host_ip |-> SomeStr(<<":">>), host_port |-> SomeStr(<<"1">>)] >>

\* C24 as stated: get_port_bindings fails with an error carrying the
\* offending spec for every spec with more than three colon-separated
\* fields, and never panics.
C24_FailsOnSurplusFields ==
    /\ ~ppanic
    /\ \A i \in 1..Len(input) :
          Len(Fields(input[i])) > 3 => perr = SomeStr(input[i])

\* C24: get_port_bindings never fails and never panics: the split from the
\* right always yields a first field, so the error of a missing field is
\* never produced and every spec, whatever its number of colon-separated
\* fields and even when empty, adds the text after its last colon as a key.
C24_NeverFailsNeverPanics ==
    /\ perr = NoStr
    /\ ~ppanic
    /\ \A i \in 1..Len(input) :
          LET s == input[i]
              port == IF Colons(s) = {} THEN s
                      ELSE SubSeq(s, ColonFromEnd(s, 0) + 1, Len(s))
          IN  port \in DOMAIN bindings

\* C24 witness: the spec 1:::1 has four colon-separated fields and is
\* accepted; the surplus is part of the host IP.
C24_Witness ==
    /\ input = << <<"1", ":", ":", ":", "1">> >>
    /\ Len(Fields(input[1])) = 4
    /\ perr = NoStr /\ ~ppanic
    /\ bindings[<<"1">>] =
          << [host_ip |-> SomeStr(<<"1", ":">>), host_port |-> SomeStr(<<>>)] >>

(***************************************************************************)
(* Order of the engine calls of run.                                       *)
(***************************************************************************)
\* the engine calls of run, in the order of its statements
RunOrder ==
    <<"create_container", "attach_container", "start_container",
      "remove_container">>

\* the calls issued so far are the first calls of RunOrder, each once, and
\* all but create name the container that was created
RunCallsInOrder ==
    /\ Len(calls) <= Len(RunOrder)
    /\ \A k \in 1..Len(calls) :
          /\ calls[k].api = RunOrder[k]
          /\ k > 1 => calls[k].target = created

\* run has returned Ok exactly after the calls it had to make
RunOkAfterAllCalls ==
    /\ (pc = "done" /\ ret = "Ok") => Len(calls) = (IF rm THEN 4 ELSE 3)
    /\ pc = "done" =>
          ret \in {"Ok", "CreateError", "AttachError", "StartError", "RemoveError"}

\* removal is issued only with rm set
RunRemovesOnlyWithRm == Len(calls) = 4 => rm

\* C25 as stated: run issues create, attach, start in this order, each
\* once; the container is removed, once and only with rm set, only after
\* its output stream has closed; run returns Ok when all its calls
\* succeeded.
C25_RemoveOnlyAfterStreamClosed ==
    /\ RunCallsInOrder
    /\ RunOkAfterAllCalls
    /\ RunRemovesOnlyWithRm
    /\ Len(calls) = 4 => task["relay"] = "ok"

\* C25 witness: run --rm has issued its four calls in order and returned Ok
\* although the relay task ended with an error, the stream not being closed.
C25_Witness ==
    /\ op = "run" /\ rm
    /\ pc = "done" /\ ret = "Ok"
    /\ Len(calls) = 4
    /\ task["relay"] = "err"

(***************************************************************************)
(* Locks of the stats command, under LockSpec.                             *)
(***************************************************************************)
\* the poller of k waits for the lock of its cell
PollerWaits(k) == poller[k] \in {"lock_replace", "lock_take"}

\* the locks are nested outer-then-cell only: the render loop waits for and
\* holds a cell lock under the outer lock, and the holder of a cell lock
\* that has yet to release it never waits for the outer lock
NestedOuterThenCell ==
    /\ rpc \in {"wait_cell", "cell"} => outerLock = "render" /\ cur \in Keys
    /\ \A k \in StatIds : CellHolder(k) = "render" => rpc # "lock"
    /\ outerLock \in {None, "render", "discovery"}
    /\ outerLock = "discovery" <=> dpc = "update"

\* C26: the stats command is free of deadlock: the locks are nested
\* outer-then-cell only, and a task that waits for a lock, the outer lock
\* or a cell's, is eventually granted it.
C26_WaitingTaskAcquiresLock ==
    /\ []NestedOuterThenCell
    /\ (dpc = "lock") ~> (dpc = "update")
    /\ (rpc = "lock") ~> (rpc \in {"lock_cell", "tick"})
    /\ (rpc = "wait_cell") ~> (rpc = "cell")
    /\ \A k \in StatIds : PollerWaits(k) ~> (CellHolder(k) = "poller")

\* C26 witness: the render loop holds the outer lock and waits for the lock
\* of a cell its poller holds, while the discovery loop waits for the outer
\* lock.
C26_Witness ==
    /\ outerLock = "render" /\ dpc = "lock"
    /\ rpc = "wait_cell" /\ CellHolder(cur) = "poller"

(***************************************************************************)
(* Pollers, stale samples and frames of the stats command.                 *)
(***************************************************************************)
\* the poller of k has ended, with the end of its stream or with an error
PollerEnded(k) == poller[k] \in {"ok", "err"}

\* the discovery pass that has just ended went over id k
PassedOver(k) ==
    /\ EndOfPass
    /\ \E i \in 1..Len(listing) :
          listing[i] = k /\ \A j \in 1..i : listing[j] # None

\* C27: for every container id exactly one poller has been started if the
\* id is a cache key and none if it is not: never a second one, and as many
\* pollers as keys, also after a poller has ended and its container is
\* listed again.
C27_OnePollerPerKey ==
    /\ \A k \in StatIds : spawned[k] = (IF k \in Keys THEN 1 ELSE 0)
    /\ Cardinality({k \in StatIds : spawned[k] > 0}) = Cardinality(Keys)

\* C27 witness: a discovery pass has gone over X after the poller of X had
\* ended, and X still has had one poller only.
C27_Witness ==
    /\ PassedOver("X")
    /\ PollerEnded("X")
    /\ spawned["X"] = 1

\* the poller of k has ended with a transport error after the cell of k
\* had taken a sample
Stale(k) == poller[k] = "err" /\ recvd[k] >= 1

\* C28: once the poller of k has ended with a transport error after a
\* sample was stored, the cell of k holds the last sample of the stream and
\* keeps it for good; every frame that starts from then on has k to visit,
\* the visit prints the row of k with that sample, and no frame ends before
\* all its visits.
C28_StaleSampleShownForever ==
    /\ [](\A k \in StatIds : Stale(k) => stats[k] = Some(recvd[k]))
    /\ [](rpc = "tick" => todo = {})
    /\ [][\A k \in StatIds : Stale(k) =>
            /\ Stale(k)'
            /\ stats'[k] = stats[k]
            /\ (rpc = "lock" /\ rpc' # "lock") => k \in todo'
            /\ (k \in todo /\ k \notin todo') =>
                  frame' = Append(frame, [id |-> k, sample |-> recvd[k]])]_vars

\* C28 witness: the stream of X failed after its second sample, and a frame
\* has been printed in full with the row of X showing that sample.
C28_Witness ==
    /\ Stale("X") /\ recvd["X"] = 2
    /\ rpc = "tick"
    /\ \E i \in 1..Len(frame) : frame[i] = [id |-> "X", sample |-> 2]
    /\ stats["X"] = Some(2)

\* the step prints a row
RowPrinted == Len(frame') = Len(frame) + 1

\* C29: every row of a frame shows a sample the stream of its container
\* has delivered, and a row printed for a container never shows a sample
\* older than the one printed for it last.
C29_RowsDeliveredAndNeverBackwards ==
    /\ [](\A i \in 1..Len(frame) : frame[i].sample \in 1..recvd[frame[i].id])
    /\ [][RowPrinted =>
            LET row == frame'[Len(frame')] IN
            /\ row.sample >= shown[row.id]
            /\ shown' = [shown EXCEPT ![row.id] = row.sample]]_vars
    /\ [][~RowPrinted => shown' = shown]_vars

\* C29 witness: an earlier frame showed sample 1 of X, and the frame now
\* printed, which has yet to visit X, will show its sample 2.
C29_Witness ==
    /\ rpc = "lock_cell" /\ "X" \in todo
    /\ shown["X"] = 1
    /\ stats["X"] = Some(2)

(***************************************************************************)
(* Order of the success lines of start, stop and rm.                       *)
(***************************************************************************)
\* the positions of the targets whose unit succeeded
OkTargets == {i \in Targets : unit[i] = "finished" /\ res[i].kind = "ok"}

\* the lines of standard output are those of the targets at positions I,
\* in the order of the positions
LinesOfInOrder(I) ==
    /\ Len(out) = Cardinality(I)
    /\ \E f \in [1..Len(out) -> I] :
          /\ \A j, k \in 1..Len(out) : j < k => f[j] < f[k]
          /\ \A j \in 1..Len(out) :
                out[j] = [kind |-> "id", text |-> containers[f[j]]]

\* C30: in start, stop and rm nothing is printed to standard output before
\* every unit of the batch has finished, and what is printed then is the
\* line of every target that succeeded, in the order of the target list,
\* whatever the order the units ran in.
C30_SuccessLinesInInputOrder ==
    op \in {"start", "stop", "rm"} =>
        /\ out # <<>> => \A i \in Targets : unit[i] = "finished"
        /\ DispatchReturned => LinesOfInOrder(OkTargets)

\* C30 witness: stop A B has called the engine for B first and for A
\* second, both succeeded, and the lines are A then B.
C30_Witness ==
    /\ op = "stop" /\ containers = <<"A", "B">>
    /\ pc = "done"
    /\ calls = <<[api |-> EngineOp("stop"), target |-> "B"],
                 [api |-> EngineOp("stop"), target |-> "A"]>>
    /\ out = <<[kind |-> "id", text |-> "A"], [kind |-> "id", text |-> "B"]>>

(***************************************************************************)
(* A summary without id in a listing.                                      *)
(***************************************************************************)
\* positions of the summaries without id in the listing at hand
Idless == {i \in 1..Len(listing) : listing[i] = None}

\* the step is the update pass of the discovery loop
UpdateStep == dpc = "lock" /\ dpc' = "tick"

\* C31: an update pass over a listing with a summary without id stops at
\* the first such entry: every id listed before it is a key after the pass,
\* with its poller started in the pass if it was no key; no id listed after
\* it becomes a key or gets a poller in the pass; the process goes on, and
\* the discovery loop is at its tick, from where it lists again.
C31_PassStopsAtIdlessSummary ==
    /\ [][(UpdateStep /\ Idless # {}) =>
            LET first == CHOOSE i \in Idless : \A j \in Idless : i <= j IN
            /\ \A j \in 1..(first - 1) :
                  /\ listing[j] \in DOMAIN stats'
                  /\ listing[j] \notin Keys =>
                        /\ stats'[listing[j]] = Empty
                        /\ spawned'[listing[j]] = spawned[listing[j]] + 1
                        /\ poller'[listing[j]] = "next"
            /\ \A j \in (first + 1)..Len(listing) :
                  (listing[j] # None /\ listing[j] \notin Keys) =>
                        /\ listing[j] \notin DOMAIN stats'
                        /\ spawned'[listing[j]] = spawned[listing[j]]
                        /\ poller'[listing[j]] = poller[listing[j]]
            /\ proc' = "running"]_vars
    /\ []((dpc = "tick" /\ proc = "running") => ENABLED DiscTick)

\* C31 witness: the pass over the listing of a summary without id followed
\* by the new id Y has ended: Y is no key and has no poller, and the loop
\* is at its tick.
C31_Witness ==
    /\ EndOfPass
    /\ listing = <<None, "Y">>
    /\ "Y" \notin Keys /\ spawned["Y"] = 0 /\ poller["Y"] = "none"
    /\ proc = "running"

(***************************************************************************)
(* Error paths of run.                                                     *)
(***************************************************************************)
\* the number of engine calls run has issued when call n of RunOrder failed
FailedAt ==
    [e \in {"CreateError", "AttachError", "StartError"} |->
        IF e = "CreateError" THEN 1 ELSE IF e = "AttachError" THEN 2 ELSE 3]

\* C32: when the create, attach or start call of run has failed, run has
\* returned that error with the failed call as its last engine call: no
\* call follows it and the container is not removed, whatever rm is; a
\* container that was created and failed to start stays.
C32_NoRemoveAfterFailedCall ==
    ret \in DOMAIN FailedAt =>
        /\ pc = "done"
        /\ Len(calls) = FailedAt[ret]
        /\ \A k \in 1..Len(calls) : calls[k].api # "remove_container"
        /\ ret # "CreateError" => created \in Ids

\* C32 witness: run with rm set has created a container and attached to
\* it, the start call has failed, and run has returned without removing it.
C32_Witness ==
    /\ op = "run" /\ rm
    /\ pc = "done" /\ ret = "StartError"
    /\ created \in Ids
    /\ Len(calls) = 3 /\ calls[3].api = "start_container"

(***************************************************************************)
(* Interactive start.                                                      *)
(***************************************************************************)
\* start has gone past its dispatch without a failed unit and joins its
\* attach tasks
JoiningAttach == op = "start" /\ pc = "attach_join"

\* C33: start with interactive set never returns Ok: past a dispatch
\* without failure it waits as long as the input task runs, also when the
\* relay task has ended with the output stream closed, and the input task
\* ends with an error only, which start then returns.
C33_InteractiveStartNeverOk ==
    (op = "start" /\ interactive) =>
        /\ ret # "Ok"
        /\ task["input"] # "ok"
        /\ (JoiningAttach /\ task["input"] = "running") => ~ENABLED AttachJoin
        /\ (Returned /\ task["input"] = "err" /\ ret \notin {"BatchFailed"})
              => ret = "TaskError"

\* C33 witness: the container was started, its output stream has closed
\* and the relay task has returned Ok; start still waits for the input
\* task, which has forwarded all the input there was.
C33_Witness ==
    /\ op = "start" /\ interactive
    /\ JoiningAttach /\ ret = None
    /\ task["relay"] = "ok"
    /\ task["input"] = "running" /\ ipos = "read" /\ lines = MaxLines

====
